---- MODULE Spec2Model ----
(***************************************************************************)
(* Model of the image ingestion service: the request handlers of           *)
(* src/main.rs (upload_multipart, upload_json) and the ingestion pipeline  *)
(* of src/lib.rs (fetch_image, upload_image, stream_to_file,               *)
(* stream_to_writer) with the thumbnail deriver of src/imagetools.rs, over *)
(* a shared uploads directory.                                             *)
(***************************************************************************)
EXTENDS Naturals, Sequences, FiniteSets, TLC

\* ------------------------------------------------------------------ bounds
\* Concurrent requests.
NumReqs == 2
\* Items (multipart fields, JSON items) over all requests.
MaxItems == 2
\* Chunks delivered over all streams.
MaxChunks == 2
\* Failures (of a stream, of the file system, of the network, of the
\* thumbnail derivation) over one run.
MaxFaults == 1
\* Capacity of the BufWriter of stream_to_file, in bytes.
BufCap == 2

Reqs == 1..NumReqs
\* The identifiers gen_rand_id may return (12 alphanumeric characters in the
\* code; here a short alphabet).
Ids == {"a", "b"}
\* The chunks the streams deliver, of one and of two bytes; no byte occurs
\* twice, so that a chunk lost, repeated, out of place or in the wrong file
\* shows.
Chunk(k) == IF k % 2 = 1 THEN <<2 * k>> ELSE <<2 * k, 2 * k + 1>>
Chunks == {Chunk(k) : k \in 1..MaxChunks}
\* MIME types a field declares, an upstream answers or the detector sniffs.
MimeTypes == {"image/jpeg", "image/png", "text/plain"}

VARIABLES
    dir,    \* the uploads directory: file name -> inode
    data,   \* inode -> content (a sequence of bytes), for every live inode
    ing,    \* the upload_image calls made so far, in the order of their start
    req,    \* request -> the state of its handler
    faults  \* I/O failures so far

vars == <<dir, data, ing, req, faults>>

\* ------------------------------------------------------------- pure helpers
Max(a, b) == IF a >= b THEN a ELSE b

RECURSIVE Concat(_)
Concat(chunks) ==
    IF chunks = <<>> THEN <<>> ELSE Head(chunks) \o Concat(Tail(chunks))

\* src/lib.rs mime_type_to_extension; "None" stands for Option::None.
mime_type_to_extension(mime_type) ==
    CASE mime_type = "image/bmp" -> "bmp"
      [] mime_type = "image/jpeg" -> "jpg"
      [] mime_type = "image/png" -> "png"
      [] OTHER -> "None"

\* The paths upload_image builds from uploads_dir, id and extension (the
\* uploads directory is the same for all, so names stand for paths).
\* tmp_path with a temp name that does not depend on the id.
tmp_path_shared(id) == "upload.tmp"
tmp_path(id) == id \o ".tmp"
upload_path(id, extension) == id \o "." \o extension
\* thumbnail_path that is the path of the primary artifact.
thumbnail_path_primary(id, extension) == id \o "." \o extension
thumbnail_path(id, extension) == id \o "_thumbnail." \o extension

\* ---------------------------------------------------------- the file system
Exists(name) == name \in DOMAIN dir
Content(name) == data[dir[name]]
Range(f) == {f[x] : x \in DOMAIN f}

\* The inode a newly created file gets.
NewInode(dt) == CHOOSE n \in 1..(Cardinality(DOMAIN dt) + 1) : n \notin DOMAIN dt

\* The inodes the kernel keeps: those with a name or an open descriptor.
Live(d, dt, g) ==
    LET open == {g[i].fd : i \in DOMAIN g} \ {0}
        keep == {n \in DOMAIN dt : n \in Range(d) \/ n \in open}
    IN [n \in keep |-> dt[n]]

Unlink(d, name) == [n \in DOMAIN d \ {name} |-> d[n]]
Put(f, k, v) == [x \in DOMAIN f \cup {k} |-> IF x = k THEN v ELSE f[x]]

\* tokio::fs::remove_file (lib.rs 190) and tokio::fs::rename (lib.rs 143) on
\* a directory d, when they succeed.
\* remove_file that removes nothing.
remove_file_skipped(d, name) == d
remove_file(d, name) == Unlink(d, name)
rename(d, from, to) == Put(Unlink(d, from), to, d[from])

\* A write of bytes b at offset off of a file of content c (a gap reads as 0).
WriteAt(c, off, b) ==
    [k \in 1..Max(Len(c), off + Len(b)) |->
        IF k > off /\ k <= off + Len(b) THEN b[k - off]
        ELSE IF k <= Len(c) THEN c[k] ELSE 0]

\* tokio::io::BufWriter::write_all(chunk) on a buffer buf: the bytes flushed
\* first when the chunk would overflow the buffer, the chunk written through
\* when it is at least as long as the buffer, and the buffer left behind.
BufOverflow(buf, chunk) == Len(buf) + Len(chunk) > BufCap
BufDirect(chunk) == Len(chunk) >= BufCap
BufFlushed(buf, chunk) == IF BufOverflow(buf, chunk) THEN buf ELSE <<>>
\* BufAfter that also buffers a chunk it has written through.
BufAfter_twice(buf, chunk) ==
    (IF BufOverflow(buf, chunk) THEN <<>> ELSE buf) \o chunk
BufAfter(buf, chunk) ==
    LET kept == IF BufOverflow(buf, chunk) THEN <<>> ELSE buf
    IN IF BufDirect(chunk) THEN kept ELSE kept \o chunk

\* ------------------------------------------------------------- error classes
\* src/main.rs: err.downcast_ref() matches UploadError::Client and nothing
\* else; every other error is answered with InternalServerError.
error_response(err) ==
    IF err = "Client" THEN "BadRequest" ELSE "InternalServerError"

\* final_response that answers success whatever was uploaded.
final_response_ok(uploaded_files) == "Ok"
\* The response once the items are exhausted (main.rs 62-74, 191-203).
final_response(uploaded_files) ==
    IF uploaded_files # <<>> THEN "Ok" ELSE "BadRequest"

\* main.rs 11-18: the body of every response, the ids of the files uploaded.
uploaded_files_to_json_list(uploaded_files) ==
    [k \in DOMAIN uploaded_files |-> uploaded_files[k].id]

\* ------------------------------------------------------------------- state
\* What a handler learnt of the item at hand before it rejected or ingested
\* it: whether the GET of a url item got a response, the status of that
\* response, and the MIME type declared (multipart), answered (url; "absent"
\* for no Content-Type header, "opaque" for one that is no visible ASCII)
\* or sniffed (base64).
Seen(fetch, status, mime) == [fetch |-> fetch, status |-> status, mime |-> mime]
NoSeen == Seen("none", 0, "none")

NoReq ==
    [kind |-> "none", pc |-> "new", items |-> <<>>, idx |-> 0,
     uploaded_files |-> <<>>, resp |-> "none", err |-> "none",
     body |-> <<>>, seen |-> NoSeen, ended |-> "none"]

Init ==
    /\ dir = <<>>
    /\ data = <<>>
    /\ ing = <<>>
    /\ req = [r \in Reqs |-> NoReq]
    /\ faults = 0

\* An I/O operation of the step fails, or all of them succeed.
Fault == faults < MaxFaults /\ faults' = faults + 1
NoFault == UNCHANGED faults

\* Items announced so far over all requests.
RECURSIVE SumItems(_)
SumItems(rs) ==
    IF rs = {} THEN 0
    ELSE LET r == CHOOSE x \in rs : TRUE
         IN (IF req[r].kind = "json" THEN Len(req[r].items) ELSE req[r].idx)
            + SumItems(rs \ {r})
TotalItems == SumItems(Reqs)

\* Chunks delivered so far over all streams.
Delivered == UNION {Range(ing[i].chunks) : i \in DOMAIN ing}

\* src/lib.rs gen_rand_id: a random draw, any identifier can come out.
gen_rand_id == Ids

\* NewIngestion that starts at the thumbnail derivation.
NewIngestion_derives_first(r, src, extension, id) ==
    [caller |-> r, src |-> src, extension |-> extension, id |-> id,
     pc |-> "thumbnail", chunks |-> <<>>, drained |-> FALSE,
     buf |-> <<>>, fd |-> 0, off |-> 0, err |-> "none", failed |-> "none",
     committed |-> FALSE, derive |-> "none",
     result |-> "none", thumbnail_path |-> "None"]
\* upload_image is entered (lib.rs 120-127): the id is drawn and the paths
\* are computed; src names the kind of stream.
NewIngestion(r, src, extension, id) ==
    [caller |-> r, src |-> src, extension |-> extension, id |-> id,
     pc |-> "create", chunks |-> <<>>, drained |-> FALSE,
     buf |-> <<>>, fd |-> 0, off |-> 0, err |-> "none", failed |-> "none",
     committed |-> FALSE, derive |-> "none",
     result |-> "none", thumbnail_path |-> "None"]


\* ------------------------------------------- the handler after upload_image
\* upload_image returned Ok(file): the handler pushes the file and goes on
\* with the next item (main.rs 34-47, 109-122, 154-167).
HandlerOk(rq, file) ==
    [rq EXCEPT !.pc = "loop",
               !.uploaded_files = Append(rq.uploaded_files, file)]

\* upload_image (or fetch_image) returned Err(err): the handler answers by
\* the class of the error with the ids uploaded so far (main.rs 48-58,
\* 123-133, 168-178).
\* HandlerErr that goes on with the next item.
HandlerErr_continues(rq, err) ==
    [rq EXCEPT !.pc = "loop", !.err = err]
HandlerErr(rq, err) ==
    [rq EXCEPT !.pc = "done", !.err = err, !.resp = error_response(err),
               !.body = uploaded_files_to_json_list(rq.uploaded_files)]

\* An unwrap() failed inside upload_image: the panic unwinds through the
\* handler, which never answers.
HandlerPanic(rq) == [rq EXCEPT !.pc = "panicked"]

\* ---------------------------------------------------------- stream_to_file
\* lib.rs 185: a failed File::create is UploadError::Server.
create_error == "Server"
\* read_error with the tag of a storage failure.
read_error_server == "Server"
\* lib.rs 202: a failed read of the stream is UploadError::Client.
read_error == "Client"
\* lib.rs 206, 212: a failed write or flush is UploadError::Server.
write_error == "Server"

\* lib.rs 183-186: File::create(&filename), create + truncate, write only.
Create(i) ==
    /\ i \in DOMAIN ing
    /\ ing[i].pc = "create"
    /\ LET name == tmp_path(ing[i].id) IN
       \/ \* created, or truncated when the name exists
          LET ino == IF Exists(name) THEN dir[name] ELSE NewInode(data) IN
          /\ dir' = Put(dir, name, ino)
          /\ data' = Put(data, ino, <<>>)
          /\ ing' = [ing EXCEPT ![i].pc = "write", ![i].fd = ino, ![i].off = 0]
          /\ NoFault
          /\ UNCHANGED req
       \/ \* the create fails: UploadError::Server, nothing to clean up
          /\ Fault
          /\ ing' = [ing EXCEPT ![i].pc = "returned", ![i].err = create_error,
                                ![i].failed = "create", ![i].result = "Err"]
          /\ req' = [req EXCEPT ![ing[i].caller] = HandlerErr(@, create_error)]
          /\ UNCHANGED <<dir, data>>

\* The stream can deliver one more chunk: a multipart field or a response
\* body any number, a decoded base64 payload exactly one.
CanDeliver(g) ==
    /\ Chunks \ Delivered # {}
    /\ g.src = "base64" => g.chunks = <<>>
CanEnd(g) == g.src = "base64" => g.chunks # <<>>

\* Abort that goes on to the rename as if the stream had been written.
Abort_proceeds(g, op, err) ==
    [g EXCEPT !.pc = "rename", !.err = err, !.failed = op,
              !.buf = <<>>, !.fd = 0, !.off = 0]

\* stream_to_writer fails (lib.rs 202, 206, 212): the writer is dropped with
\* whatever it buffered and stream_to_file goes on to remove the file.
Abort(g, op, err) ==
    [g EXCEPT !.pc = "remove", !.err = err, !.failed = op,
              !.buf = <<>>, !.fd = 0, !.off = 0]

\* flush that drops what is buffered.
flush_lost(buf) == <<>>
\* lib.rs 209-212: writer.flush(), the bytes that reach the file.
flush(buf) == buf

\* lib.rs 203-206: write_all(&chunk) on the BufWriter, the bytes that reach
\* the file.
write_all(buf, chunk) ==
    BufFlushed(buf, chunk) \o (IF BufDirect(chunk) THEN chunk ELSE <<>>)

\* lib.rs 201-207, a chunk arrives and write_all succeeds.
StreamChunk(i) ==
    /\ i \in DOMAIN ing
    /\ ing[i].pc = "write"
    /\ CanDeliver(ing[i])
    /\ \E chunk \in Chunks \ Delivered :
        LET g == ing[i]
            out == write_all(g.buf, chunk)
        IN /\ ing' = [ing EXCEPT ![i].chunks = Append(g.chunks, chunk),
                                 ![i].buf = BufAfter(g.buf, chunk),
                                 ![i].off = g.off + Len(out)]
           /\ data' = [data EXCEPT ![g.fd] = WriteAt(@, g.off, out)]
    /\ NoFault
    /\ UNCHANGED <<dir, req>>

\* lib.rs 203-206, a chunk arrives and write_all fails: at the flush of the
\* full buffer, or at the write of the chunk after that flush.
StreamWriteError(i) ==
    /\ i \in DOMAIN ing
    /\ ing[i].pc = "write"
    /\ CanDeliver(ing[i])
    /\ \E chunk \in Chunks \ Delivered, at \in {"flush_buf", "write"} :
        LET g == ing[i]
            flushed == BufFlushed(g.buf, chunk)
        IN /\ at = "flush_buf" => flushed # <<>>
           /\ at = "write" => BufDirect(chunk)
           /\ ing' = [ing EXCEPT ![i] =
                         Abort([g EXCEPT !.chunks = Append(g.chunks, chunk)],
                               "write", write_error)]
           /\ data' = Live(dir,
                           [data EXCEPT ![g.fd] =
                               IF at = "write" THEN WriteAt(@, g.off, flushed) ELSE @],
                           ing')
    /\ Fault
    /\ UNCHANGED <<dir, req>>

\* lib.rs 201-202, the stream yields Err.
StreamError(i) ==
    /\ i \in DOMAIN ing
    /\ ing[i].pc = "write"
    /\ ing[i].src # "base64"
    /\ ing' = [ing EXCEPT ![i] = Abort(@, "read", read_error)]
    /\ data' = Live(dir, data, ing')
    /\ Fault
    /\ UNCHANGED <<dir, req>>

\* lib.rs 201, 209-214, the stream ends and the writer is flushed.
StreamEnd(i) ==
    /\ i \in DOMAIN ing
    /\ ing[i].pc = "write"
    /\ CanEnd(ing[i])
    /\ LET g == ing[i] IN
       \/ /\ ing' = [ing EXCEPT ![i].pc = "rename", ![i].drained = TRUE,
                                ![i].buf = <<>>, ![i].fd = 0, ![i].off = 0]
          /\ data' = Live(dir, [data EXCEPT ![g.fd] = WriteAt(@, g.off, flush(g.buf))], ing')
          /\ NoFault
       \/ /\ ing' = [ing EXCEPT ![i] = Abort([g EXCEPT !.drained = TRUE], "flush", write_error)]
          /\ data' = Live(dir, data, ing')
          /\ Fault
    /\ UNCHANGED <<dir, req>>

\* lib.rs 189-192: remove_file(&filename).await.unwrap(), then the error of
\* stream_to_writer is returned, which upload_image returns as it is
\* (lib.rs 130-133).
Remove(i) ==
    /\ i \in DOMAIN ing
    /\ ing[i].pc = "remove"
    /\ LET name == tmp_path(ing[i].id) IN
       \/ /\ Exists(name)
          /\ dir' = remove_file(dir, name)
          /\ ing' = [ing EXCEPT ![i].pc = "returned", ![i].result = "Err"]
          /\ data' = Live(dir', data, ing')
          /\ req' = [req EXCEPT ![ing[i].caller] = HandlerErr(@, ing[i].err)]
          /\ NoFault
       \/ \* the removal fails (always when the file is gone): unwrap panics
          /\ IF Exists(name) THEN Fault ELSE NoFault
          /\ ing' = [ing EXCEPT ![i].pc = "panicked"]
          /\ req' = [req EXCEPT ![ing[i].caller] = HandlerPanic(@)]
          /\ UNCHANGED <<dir, data>>

\* lib.rs 135-143: rename(&tmp_path, &upload_path).await.unwrap().
Rename(i) ==
    /\ i \in DOMAIN ing
    /\ ing[i].pc = "rename"
    /\ LET src == tmp_path(ing[i].id)
           dst == upload_path(ing[i].id, ing[i].extension) IN
       \/ /\ Exists(src)
          /\ dir' = rename(dir, src, dst)
          /\ ing' = [ing EXCEPT ![i].pc = "thumbnail", ![i].committed = TRUE]
          /\ data' = Live(dir', data, ing')
          /\ NoFault
          /\ UNCHANGED req
       \/ \* the rename fails (always when the source is gone): unwrap panics
          /\ IF Exists(src) THEN Fault ELSE NoFault
          /\ ing' = [ing EXCEPT ![i].pc = "panicked", ![i].failed = "rename"]
          /\ req' = [req EXCEPT ![ing[i].caller] = HandlerPanic(@)]
          /\ UNCHANGED <<dir, data>>

\* -------------------------------------------------------- thumbnail, return
\* The file imwrite leaves for a 100x100 thumbnail (its bytes do not matter).
Encoded == <<9>>

\* lib.rs 170-174, the record upload_image returns.
UploadedFile(g, thumbnail) ==
    [id |-> g.id, path |-> upload_path(g.id, g.extension),
     thumbnail_path |-> thumbnail]

\* thumbnail_option that reports the path whatever the result.
thumbnail_option_some(res, path) == path
\* thumbnail_option that reports no path whatever the result.
thumbnail_option_none(res, path) == "None"
\* lib.rs 163-168: Err of create_thumbnail becomes None, Ok becomes Some.
thumbnail_option(res, path) == IF res = "Err" THEN "None" ELSE path

\* lib.rs 145-174 with imagetools.rs 7-32: create_thumbnail runs on the
\* blocking pool and upload_image awaits it. imread yields an empty Mat for
\* a file that is no image (an empty file never is), on which resize fails.
Thumbnail(i) ==
    /\ i \in DOMAIN ing
    /\ ing[i].pc = "thumbnail"
    /\ LET g == ing[i]
           src == upload_path(g.id, g.extension)
           dest == thumbnail_path(g.id, g.extension)
           decodable == Exists(src) /\ Content(src) # <<>>
           ino == IF Exists(dest) THEN dir[dest] ELSE NewInode(data)
           return(res) ==
               LET file == UploadedFile(g, thumbnail_option(res, dest)) IN
               /\ ing' = [ing EXCEPT ![i].pc = "returned", ![i].derive = res,
                                     ![i].result = "Ok",
                                     ![i].thumbnail_path = file.thumbnail_path]
               /\ req' = [req EXCEPT ![g.caller] = HandlerOk(@, file)]
       IN
       \/ \* decoded, resized and written: Ok(())
          /\ decodable
          /\ dir' = Put(dir, dest, ino)
          /\ data' = Put(data, ino, Encoded)
          /\ NoFault
          /\ return("Ok")
       \/ \* imwrite returns Ok(false), which the ? discards: Ok(()), no file
          /\ decodable
          /\ UNCHANGED <<dir, data>>
          /\ Fault
          /\ return("Ok")
       \/ \* imread, Mat::new_size or resize fail: Err, nothing written
          /\ UNCHANGED <<dir, data>>
          /\ IF decodable THEN Fault ELSE NoFault
          /\ return("Err")
       \/ \* imwrite fails part way: Err, the destination is left as it got
          /\ decodable
          /\ dir' = Put(dir, dest, ino)
          /\ data' = Put(data, ino, <<>>)
          /\ Fault
          /\ return("Err")
       \/ \* the blocking task panics: JoinError, and .await.unwrap() panics
          /\ Fault
          /\ ing' = [ing EXCEPT ![i].pc = "panicked", ![i].derive = "Panic",
                                ![i].failed = "join"]
          /\ req' = [req EXCEPT ![g.caller] = HandlerPanic(@)]
          /\ UNCHANGED <<dir, data>>

\* ------------------------------------------------------- request handlers
\* Requests are numbered in the order of their arrival.
Arrives(r) == req[r].kind = "none" /\ \A q \in Reqs : q < r => req[q].kind # "none"

\* A multipart/form-data POST reaches upload_multipart (main.rs 20-21).
MultipartRequest(r) ==
    /\ Arrives(r)
    /\ req' = [req EXCEPT ![r].kind = "multipart", ![r].pc = "loop"]
    /\ UNCHANGED <<dir, data, ing, faults>>

\* An application/json POST reaches upload_json with its parsed items
\* (main.rs 94-102).
JsonRequest(r) ==
    /\ Arrives(r)
    /\ \E n \in 0..(MaxItems - TotalItems) :
       \E items \in [1..n -> {"url", "base64"}] :
          req' = [req EXCEPT ![r].kind = "json", ![r].pc = "loop",
                             ![r].items = items]
    /\ UNCHANGED <<dir, data, ing, faults>>

\* The handler rejects the item without ingesting it.
Reject(r, seen, err, resp) ==
    /\ req' = [req EXCEPT ![r].pc = "done", ![r].idx = @ + 1,
                          ![r].seen = seen,
                          ![r].err = err, ![r].resp = resp,
                          ![r].body = uploaded_files_to_json_list(req[r].uploaded_files)]
    /\ UNCHANGED <<dir, data, ing>>

\* The handler calls upload_image(stream, uploads_dir, extension).
Call(r, seen, src, extension) ==
    /\ \E id \in gen_rand_id :
          ing' = Append(ing, NewIngestion(r, src, extension, id))
    /\ req' = [req EXCEPT ![r].pc = "call", ![r].idx = @ + 1,
                          ![r].seen = seen]
    /\ UNCHANGED <<dir, data, faults>>

\* main.rs 23-32: try_next yields a field; its declared type is resolved.
MultipartField(r) ==
    /\ req[r].kind = "multipart"
    /\ req[r].pc = "loop"
    /\ TotalItems < MaxItems
    /\ \E mime \in MimeTypes :
        LET extension == mime_type_to_extension(mime) IN
        IF extension = "None"
        THEN NoFault /\ Reject(r, Seen("none", 0, mime), "none", "UnsupportedMediaType")
        ELSE Call(r, Seen("none", 0, mime), "multipart", extension)

\* main.rs 23, 62-74: try_next yields Ok(None), the end of the body, or
\* Err, a body that cannot be read or parsed; the while let ends on both.
MultipartEnd(r) ==
    /\ req[r].kind = "multipart"
    /\ req[r].pc = "loop"
    /\ \E how \in {"eof", "error"} :
        /\ IF how = "error" THEN Fault ELSE NoFault
        /\ req' = [req EXCEPT ![r].pc = "done", ![r].ended = how,
                              ![r].resp = final_response(req[r].uploaded_files),
                              ![r].body = uploaded_files_to_json_list(req[r].uploaded_files)]
    /\ UNCHANGED <<dir, data, ing>>

\* lib.rs 77-103: what fetch_image returns before it reaches upload_image.
\* send() failing hands the reqwest error on by ?.
FetchErrors == {"reqwest::Error", "ServerReturnedError", "UnsupportedMediaType"}

\* lib.rs 77-81: send().await?, the error of a GET that got no response;
\* the ? converts the reqwest::Error into failure::Error as it is.
send_error == "reqwest::Error"

\* The responses of an upstream: status codes and Content-Type headers.
Statuses == {200, 404}
ContentTypes == {"absent", "opaque"} \cup MimeTypes

\* lib.rs 85: reqwest's StatusCode::is_success.
is_success(status) == status >= 200 /\ status <= 299

\* lib.rs 91-103: the extension of the Content-Type header; a header that
\* is absent or that to_str() refuses has none.
fetch_extension(content_type) ==
    IF content_type \in {"absent", "opaque"} THEN "None"
    ELSE mime_type_to_extension(content_type)

\* fetch_check that reads the Content-Type before the status.
fetch_check_type_first(status, content_type) ==
    IF fetch_extension(content_type) = "None" THEN "UnsupportedMediaType"
    ELSE IF ~is_success(status) THEN "ServerReturnedError"
    ELSE "Ok"
\* lib.rs 85-103: the checks of fetch_image on the response, in their order.
fetch_check(status, content_type) ==
    IF ~is_success(status) THEN "ServerReturnedError"
    ELSE IF fetch_extension(content_type) = "None" THEN "UnsupportedMediaType"
    ELSE "Ok"

\* main.rs 106-107 with lib.rs 68-107: a url item, fetch_image up to its
\* call of upload_image.
JsonUrl(r) ==
    /\ req[r].kind = "json"
    /\ req[r].pc = "loop"
    /\ req[r].idx < Len(req[r].items)
    /\ req[r].items[req[r].idx + 1] = "url"
    /\ \/ \* lib.rs 77-81: send() fails
          /\ Fault
          /\ Reject(r, Seen("failed", 0, "none"), send_error, error_response(send_error))
       \/ \* lib.rs 85-107: a response arrives and is checked
          \E status \in Statuses, content_type \in ContentTypes :
            LET seen == Seen("response", status, content_type)
                res == fetch_check(status, content_type)
            IN IF res # "Ok"
               THEN NoFault /\ Reject(r, seen, res, error_response(res))
               ELSE Call(r, seen, "url", fetch_extension(content_type))

\* main.rs 136-152, 181-186: a base64 item.
JsonBase64(r) ==
    /\ req[r].kind = "json"
    /\ req[r].pc = "loop"
    /\ req[r].idx < Len(req[r].items)
    /\ req[r].items[req[r].idx + 1] = "base64"
    /\ \/ \* base64::decode fails
          NoFault /\ Reject(r, NoSeen, "DecodeError", "BadRequest")
       \/ \E mime \in MimeTypes :
            LET extension == mime_type_to_extension(mime) IN
            IF extension = "None"
            THEN NoFault /\ Reject(r, Seen("none", 0, mime), "none", "UnsupportedMediaType")
            ELSE Call(r, Seen("none", 0, mime), "base64", extension)

\* main.rs 104, 191-203: the items are exhausted.
JsonEnd(r) ==
    /\ req[r].kind = "json"
    /\ req[r].pc = "loop"
    /\ req[r].idx = Len(req[r].items)
    /\ req' = [req EXCEPT ![r].pc = "done",
                          ![r].resp = final_response(req[r].uploaded_files),
                          ![r].body = uploaded_files_to_json_list(req[r].uploaded_files)]
    /\ UNCHANGED <<dir, data, ing, faults>>

Next ==
    \/ \E r \in Reqs : MultipartRequest(r)
    \/ \E r \in Reqs : JsonRequest(r)
    \/ \E r \in Reqs : MultipartField(r)
    \/ \E r \in Reqs : MultipartEnd(r)
    \/ \E r \in Reqs : JsonUrl(r)
    \/ \E r \in Reqs : JsonBase64(r)
    \/ \E r \in Reqs : JsonEnd(r)
    \/ \E i \in DOMAIN ing : Create(i)
    \/ \E i \in DOMAIN ing : StreamChunk(i)
    \/ \E i \in DOMAIN ing : StreamWriteError(i)
    \/ \E i \in DOMAIN ing : StreamError(i)
    \/ \E i \in DOMAIN ing : StreamEnd(i)
    \/ \E i \in DOMAIN ing : Remove(i)
    \/ \E i \in DOMAIN ing : Rename(i)
    \/ \E i \in DOMAIN ing : Thumbnail(i)

Spec == Init /\ [][Next]_vars

\* The steps of upload_image call i. The runtime polls a task that can go
\* on, the blocking pool runs a task it was given, and a stream that is
\* finite and answers every request for a chunk delivers or ends: each call
\* that can take a step takes one.
Step(i) ==
    \/ Create(i) \/ StreamChunk(i) \/ StreamWriteError(i) \/ StreamError(i)
    \/ StreamEnd(i) \/ Remove(i) \/ Rename(i) \/ Thumbnail(i)

FairSpec == Spec /\ \A i \in 1..MaxItems : WF_vars(Step(i))

\* ------------------------------------------------------------- properties
\* The extensions mime_type_to_extension resolves to.
Exts == {"bmp", "jpg", "png"}

\* No other upload_image call drew the id of call i: the ArtifactId of the
\* data model, which is unique to its ingestion.
Sole(i) == \A j \in DOMAIN ing : j # i => ing[j].id # ing[i].id

TmpOf(i) == tmp_path(ing[i].id)
PrimaryOf(i) == upload_path(ing[i].id, ing[i].extension)
ThumbnailOf(i) == thumbnail_path(ing[i].id, ing[i].extension)
Returned(i) == ing[i].pc = "returned"

\* The files the handler of call i holds for its id.
FilesOf(i) ==
    {f \in Range(req[ing[i].caller].uploaded_files) : f.id = ing[i].id}

\* C1: atomic visibility. Whatever the other ingestions do, a file present
\* under a final name {id}.{extension} was put there by the rename of an
\* ingestion of that id and extension whose stream was drained to its end
\* and flushed without error, and it holds exactly the chunks of the stream
\* of the ingestion that owns the id, concatenated: never a prefix.
C1_AtomicVisibility ==
    \A id \in Ids, e \in Exts :
        Exists(upload_path(id, e)) =>
            \E i \in DOMAIN ing :
                /\ ing[i].id = id /\ ing[i].extension = e
                /\ ing[i].committed /\ ing[i].drained /\ ing[i].err = "none"
                /\ Sole(i) => Content(upload_path(id, e)) = Concat(ing[i].chunks)

\* A primary artifact of two chunks is present while another ingestion is
\* writing its temp file.
C1_Witness ==
    \E i, j \in DOMAIN ing :
        /\ Sole(i) /\ ing[i].committed /\ Exists(PrimaryOf(i))
        /\ Len(ing[i].chunks) = 2
        /\ ing[j].pc = "write" /\ Exists(TmpOf(j))

\* C2: once upload_image has returned, Ok or Err, no file {id}.tmp of the
\* id of that ingestion is in the uploads directory.
C2_NoTempAfterReturn ==
    \A i \in DOMAIN ing : Returned(i) /\ Sole(i) => ~Exists(TmpOf(i))

\* An ingestion returned the error of a write that failed after a chunk had
\* reached its temp file, and another returned Ok.
C2_Witness ==
    \E i, j \in DOMAIN ing :
        /\ Sole(i) /\ Returned(i) /\ ing[i].failed = "write"
        /\ ing[i].chunks # <<>>
        /\ Returned(j) /\ ing[j].result = "Ok"

\* C3: when the stream fails after N >= 0 chunks, or a write or the flush
\* fails, then once upload_image has returned the result is Err, no
\* UploadedFile was handed to the caller, {id}.tmp is gone, and no primary
\* artifact and no thumbnail of that id exists, then or at any time before.
C3_FailedIngestionLeavesNothing ==
    \A i \in DOMAIN ing :
        /\ Sole(i) /\ ~ing[i].committed =>
              \A e \in Exts : /\ ~Exists(upload_path(ing[i].id, e))
                              /\ ~Exists(thumbnail_path(ing[i].id, e))
        /\ ing[i].failed \in {"read", "write", "flush"} =>
              /\ ~ing[i].committed
              /\ ing[i].result # "Ok"
              /\ Sole(i) => FilesOf(i) = {}
              /\ Returned(i) => /\ ing[i].result = "Err"
                                /\ Sole(i) => ~Exists(TmpOf(i))

\* A stream failed after one chunk and upload_image has returned.
C3_Witness ==
    \E i \in DOMAIN ing :
        /\ Sole(i) /\ Returned(i) /\ ing[i].failed = "read"
        /\ Len(ing[i].chunks) = 1

\* C4: for a stream that delivers all its chunks (none included) and is
\* written and flushed, upload_image returns Ok(UploadedFile) with path
\* {id}.{extension}, a supported extension, and at return and after it that
\* file holds the chunks concatenated in the order of the stream.
C4_PrimaryEqualsStream ==
    \A i \in DOMAIN ing :
        Returned(i) /\ ing[i].drained /\ ing[i].err = "none" =>
            /\ ing[i].result = "Ok"
            /\ ing[i].extension \in Exts
            /\ \E f \in FilesOf(i) : f.path = PrimaryOf(i)
            /\ Exists(PrimaryOf(i))
            /\ Sole(i) => Content(PrimaryOf(i)) = Concat(ing[i].chunks)

\* One ingestion returned Ok for a stream of two chunks, another for a
\* stream of none.
C4_Witness ==
    \E i, j \in DOMAIN ing :
        /\ Sole(i) /\ Returned(i) /\ ing[i].result = "Ok"
        /\ Len(ing[i].chunks) = 2
        /\ Content(PrimaryOf(i)) = ing[i].chunks[1] \o ing[i].chunks[2]
        /\ Returned(j) /\ ing[j].result = "Ok" /\ ing[j].chunks = <<>>
        /\ Content(PrimaryOf(j)) = <<>>

\* C5: a thumbnail derivation that returns an error does not fail the
\* ingestion: upload_image returns Ok(UploadedFile) with the id, the primary
\* path and thumbnail_path = None, and the primary artifact stays in place.
C5_ThumbnailErrorIsOk ==
    \A i \in DOMAIN ing :
        ing[i].derive = "Err" =>
            /\ Returned(i) /\ ing[i].result = "Ok"
            /\ ing[i].thumbnail_path = "None"
            /\ \E f \in FilesOf(i) :
                   f.path = PrimaryOf(i) /\ f.thumbnail_path = "None"
            /\ Exists(PrimaryOf(i))
            /\ Sole(i) => Content(PrimaryOf(i)) = Concat(ing[i].chunks)

\* The derivation failed on a primary artifact that is not empty, leaving a
\* file at the thumbnail path.
C5_Witness ==
    \E i \in DOMAIN ing :
        /\ ing[i].derive = "Err" /\ Sole(i)
        /\ Content(PrimaryOf(i)) # <<>>
        /\ Exists(ThumbnailOf(i))

\* C6: a panic of the blocking thumbnail task is handled like a derivation
\* error: the ingestion does not panic, upload_image returns Ok(UploadedFile)
\* with thumbnail_path = None.
C6_WorkerPanicIsNone ==
    \A i \in DOMAIN ing :
        ing[i].failed = "join" =>
            /\ Returned(i) /\ ing[i].result = "Ok"
            /\ ing[i].thumbnail_path = "None"

\* C7: a rename that fails after the stream was written and flushed makes
\* upload_image return Err(UploadError::Server), without a second attempt
\* and without an UploadedFile; the ingestion does not panic.
C7_RenameFailureIsServerError ==
    \A i \in DOMAIN ing :
        ing[i].failed = "rename" =>
            /\ Returned(i) /\ ing[i].result = "Err" /\ ing[i].err = "Server"
            /\ ~ing[i].committed
            /\ req[ing[i].caller].resp = "InternalServerError"

\* C8: the Streaming Writer stops at the first failure and tags it by its
\* origin: a failed read of the stream is Client; a failed create, write or
\* flush is Server; after the failure the ingestion reads no chunk and has
\* its file closed, and the handler receives the tag as it was set.
C8_FirstFailureTagged ==
    /\ [](\A i \in DOMAIN ing :
            /\ ing[i].failed = "read" => ing[i].err = "Client"
            /\ ing[i].failed \in {"create", "write", "flush"} => ing[i].err = "Server"
            /\ ing[i].err # "none" =>
                  /\ ing[i].pc \in {"remove", "returned", "panicked"}
                  /\ ing[i].fd = 0 /\ ~ing[i].committed
            /\ Returned(i) /\ ing[i].result = "Err" =>
                  /\ ing[i].err \in {"Client", "Server"}
                  /\ req[ing[i].caller].err = ing[i].err)
    /\ [][\A i \in DOMAIN ing :
            ing[i].err # "none" =>
                /\ ing'[i].chunks = ing[i].chunks
                /\ ing'[i].err = ing[i].err
                /\ ing'[i].failed = ing[i].failed]_vars

\* The stream failed after one chunk; the handler holds the Client tag and
\* has answered BadRequest.
C8_Witness ==
    \E i \in DOMAIN ing :
        /\ Returned(i) /\ ing[i].failed = "read" /\ Len(ing[i].chunks) = 1
        /\ req[ing[i].caller].err = "Client"
        /\ req[ing[i].caller].resp = "BadRequest"

\* The paths upload_image creates, truncates, removes or renames for call i.
PathsOf(i) == {TmpOf(i), PrimaryOf(i), ThumbnailOf(i)}
DistinctIds == \A i, j \in DOMAIN ing : i # j => ing[i].id # ing[j].id
Coexist ==
    /\ \A i, j \in DOMAIN ing : i # j => PathsOf(i) \cap PathsOf(j) = {}
    /\ \A i \in DOMAIN ing :
           Returned(i) /\ ing[i].result = "Ok" =>
               /\ Exists(PrimaryOf(i))
               /\ Content(PrimaryOf(i)) = Concat(ing[i].chunks)

\* C9 as claimed: concurrent upload_image calls always obtain pairwise
\* distinct ids, so they never touch the same path and their primary
\* artifacts coexist, each with the bytes of its own stream.
C9_AlwaysDistinctIds == DistinctIds /\ Coexist

\* C9 as amended: upload_image calls whose ids are pairwise distinct never
\* touch the same path, and their primary artifacts coexist, each with the
\* bytes of its own stream. (That the ids are distinct is not established
\* by gen_rand_id, which draws each id independently.)
C9_DistinctIdsCoexist == DistinctIds => Coexist

\* Two requests each ingested one chunk under different ids and both
\* primary artifacts are present.
C9_Witness ==
    \E i, j \in DOMAIN ing :
        /\ ing[i].caller # ing[j].caller /\ ing[i].id # ing[j].id
        /\ Returned(i) /\ ing[i].result = "Ok" /\ Len(ing[i].chunks) = 1
        /\ Returned(j) /\ ing[j].result = "Ok" /\ Len(ing[j].chunks) = 1
        /\ Exists(PrimaryOf(i)) /\ Exists(PrimaryOf(j))

\* C10: a url item rejected by fetch_image for a non-success upstream status
\* or a missing or unsupported content type is answered with a client error,
\* never with InternalServerError, which is kept for a failure of local
\* storage.
C10_FetchRejectionIsClientError ==
    \A r \in Reqs :
        req[r].err \in {"ServerReturnedError", "UnsupportedMediaType"} =>
            /\ req[r].resp \in {"BadRequest", "UnsupportedMediaType"}
            /\ req[r].resp # "InternalServerError"

\* The calls of upload_image made for request r, and the ids of those that
\* returned Ok, in the order of the calls.
CallsOf(r) == {i \in DOMAIN ing : ing[i].caller = r}
IngestedBy(r, g) == g.caller = r /\ g.result = "Ok"
RECURSIVE IngestedIds(_, _)
IngestedIds(r, calls) ==
    IF calls = <<>> THEN <<>>
    ELSE (IF IngestedBy(r, Head(calls)) THEN <<Head(calls).id>> ELSE <<>>)
         \o IngestedIds(r, Tail(calls))
Answered(r) == req[r].resp # "none"
ClientErrors == {"BadRequest", "UnsupportedMediaType"}

\* C11: a request of which at least one item was ingested is answered with
\* success, a request of which none was ingested is never answered with
\* success, and the body of the response lists the ids of the ingested
\* files.
C11_SuccessIffIngested ==
    \A r \in Reqs :
        Answered(r) =>
            /\ req[r].uploaded_files # <<>> => req[r].resp = "Ok"
            /\ req[r].uploaded_files = <<>> => req[r].resp # "Ok"
            /\ req[r].body = IngestedIds(r, ing)

\* C12: fetch_image checks the response before it ingests: a status that is
\* no success gives ServerReturnedError whatever the Content-Type (and not
\* the error of the transport), a success with a Content-Type that is
\* absent, unreadable or not allowed gives UnsupportedMediaType; the step
\* that rejects draws no id and leaves the uploads directory as it was.
C12_FetchValidatesFirst ==
    /\ [](\A r \in Reqs :
            req[r].seen.fetch = "response" =>
                /\ ~is_success(req[r].seen.status) =>
                      /\ req[r].err = "ServerReturnedError"
                      /\ req[r].pc = "done"
                /\ /\ is_success(req[r].seen.status)
                   /\ req[r].seen.mime \notin {"image/bmp", "image/jpeg", "image/png"}
                   => /\ req[r].err = "UnsupportedMediaType"
                      /\ req[r].pc = "done"
                /\ req[r].err \in {"ServerReturnedError", "UnsupportedMediaType"} =>
                      Cardinality(CallsOf(r)) = Len(req[r].uploaded_files))
    /\ [][\A r \in Reqs :
            /\ req[r].err = "none"
            /\ req'[r].err \in {"ServerReturnedError", "UnsupportedMediaType"}
            => /\ ing' = ing
               /\ dir' = dir
               /\ data' = data]_vars

\* An upstream answered 404 with an allowed Content-Type for the second item
\* of a request whose first item is in the uploads directory.
C12_Witness ==
    \E r \in Reqs :
        /\ req[r].seen = Seen("response", 404, "image/png")
        /\ req[r].err = "ServerReturnedError"
        /\ Len(req[r].uploaded_files) = 1
        /\ Exists(req[r].uploaded_files[1].path)

\* C13: a committed primary artifact is permanent. A step taken by the
\* ingestion that committed it (its thumbnail derivation, whatever the
\* outcome) or by ingestions of other ids (their creates, writes, removals,
\* renames, derivations) or by a handler leaves the artifact under its name,
\* on the same inode, with the same content.
C13_CommittedPrimaryPermanent ==
    [][\A i \in DOMAIN ing :
         /\ ing[i].committed
         /\ \A j \in DOMAIN ing :
                ing'[j] # ing[j] => j = i \/ ing[j].id # ing[i].id
         => /\ Exists(PrimaryOf(i))
            /\ PrimaryOf(i) \in DOMAIN dir'
            /\ dir'[PrimaryOf(i)] = dir[PrimaryOf(i)]
            /\ data'[dir[PrimaryOf(i)]] = data[dir[PrimaryOf(i)]]]_vars

\* An ingestion has its primary artifact and its thumbnail in place, with
\* the bytes of its stream, after an ingestion of another id failed and
\* removed its temp file.
C13_Witness ==
    \E i, j \in DOMAIN ing :
        /\ ing[i].id # ing[j].id
        /\ Returned(i) /\ ing[i].committed /\ Exists(ThumbnailOf(i))
        /\ ing[i].chunks # <<>>
        /\ Content(PrimaryOf(i)) = Concat(ing[i].chunks)
        /\ Returned(j) /\ ing[j].failed = "read" /\ ing[j].chunks # <<>>

\* C14: the steps of an ingestion come in the order id, temp file, rename,
\* thumbnail: the rename is attempted only for a stream drained and flushed
\* without error, the derivation starts only after the rename succeeded, and
\* a thumbnail {id}_thumbnail.{extension} is present only where the primary
\* artifact {id}.{extension} is.
C14_StepsInOrder ==
    /\ \A i \in DOMAIN ing :
        /\ ing[i].pc = "rename" \/ ing[i].committed =>
              ing[i].drained /\ ing[i].err = "none"
        /\ ing[i].pc \in {"create", "write", "remove", "rename"} =>
              ~ing[i].committed /\ ing[i].derive = "none"
        /\ ing[i].pc = "thumbnail" \/ ing[i].derive # "none" =>
              ing[i].committed
    /\ \A id \in Ids, e \in Exts :
        Exists(thumbnail_path(id, e)) => Exists(upload_path(id, e))

\* A thumbnail was derived from a primary artifact of two chunks while
\* another ingestion has not yet renamed its temp file.
C14_Witness ==
    \E i, j \in DOMAIN ing :
        /\ ing[i].derive = "Ok" /\ Exists(ThumbnailOf(i)) /\ Exists(PrimaryOf(i))
        /\ Len(ing[i].chunks) = 2
        /\ ing[j].pc = "rename" /\ ~Exists(PrimaryOf(j))

\* The handler of r rejected the item at hand because its MIME type has no
\* extension.
Unresolved(r) ==
    /\ req[r].pc = "done"
    /\ req[r].seen.mime # "none"
    /\ req[r].seen.fetch = "response" => is_success(req[r].seen.status)
    /\ fetch_extension(req[r].seen.mime) = "None"

\* C15: in the three input modes upload_image is called only with an
\* extension the resolver returned, so every ingestion has an extension in
\* {bmp, jpg, png}; an item whose MIME type the resolver does not know is
\* rejected with a client error and without a call of upload_image.
C15_UnsupportedIsClientRejection ==
    /\ \A i \in DOMAIN ing : ing[i].extension \in Exts
    /\ \A r \in Reqs :
        Unresolved(r) =>
            /\ req[r].resp \in ClientErrors
            /\ Cardinality(CallsOf(r)) = Len(req[r].uploaded_files)

\* C16: a GET of fetch_image that fails before a response is obtained is
\* returned as FetchError::FetchError, and no upload_image call is made.
C16_TransportFailureIsFetchError ==
    \A r \in Reqs :
        req[r].seen.fetch = "failed" =>
            /\ req[r].err = "FetchError::FetchError"
            /\ Cardinality(CallsOf(r)) = Len(req[r].uploaded_files)

\* C17: under fair scheduling, with a stream that delivers or ends and
\* operations that complete, every upload_image call eventually returns, Ok
\* or Err.
C17_EveryCallReturns ==
    \A i \in 1..MaxItems :
        (i \in DOMAIN ing) ~> (i \in DOMAIN ing /\ ing[i].pc = "returned")

\* C18: the items of a request are processed one after the other and the
\* handler stops at the first item rejected or failed: a call of
\* upload_image is made only when all earlier calls of the request returned
\* Ok; once the handler has answered, it processes no further item and makes
\* no further call; the files of the earlier items are still in the
\* directory and the body lists their ids, in the order of the items.
C18_StopsAtFirstFailure ==
    /\ [](\A r \in Reqs :
            /\ \A i, j \in CallsOf(r) :
                  i < j => Returned(i) /\ ing[i].result = "Ok"
            /\ Cardinality(CallsOf(r)) <= req[r].idx
            /\ Answered(r) =>
                  /\ req[r].pc = "done"
                  /\ \A i \in CallsOf(r) : Returned(i)
                  /\ req[r].body = IngestedIds(r, ing)
                  /\ Len(req[r].body) = Len(req[r].uploaded_files)
                  /\ \A k \in DOMAIN req[r].uploaded_files :
                        Exists(req[r].uploaded_files[k].path))
    /\ [][\A r \in Reqs :
            Answered(r) \/ req[r].err # "none" =>
                /\ req'[r] = req[r]
                /\ \A j \in DOMAIN ing' :
                      ing'[j].caller = r => j \in DOMAIN ing]_vars

\* The first of two items of a request failed in the ingestion: the handler
\* answered with the error and the second item was never started.
C18_Witness ==
    \E r \in Reqs :
        /\ req[r].kind = "json" /\ Len(req[r].items) = 2
        /\ req[r].idx = 1 /\ req[r].pc = "done"
        /\ req[r].resp = "InternalServerError" /\ req[r].body = <<>>
        /\ \E i \in CallsOf(r) : Returned(i) /\ ing[i].failed = "write"
        /\ Cardinality(CallsOf(r)) = 1

\* C19: in every UploadedFile that upload_image returns, thumbnail_path is
\* Some exactly when the derivation of that call returned Ok, and then it is
\* {id}_thumbnail.{extension} with the id and the extension of the primary
\* path; a file is returned only by a call that committed its primary
\* artifact.
C19_ThumbnailPathIffDeriveOk ==
    /\ \A i \in DOMAIN ing :
        Returned(i) /\ ing[i].result = "Ok" =>
            /\ ing[i].committed
            /\ ing[i].thumbnail_path # "None" <=> ing[i].derive = "Ok"
            /\ ing[i].thumbnail_path # "None" =>
                  ing[i].thumbnail_path =
                      ing[i].id \o "_thumbnail." \o ing[i].extension
            /\ [id |-> ing[i].id, path |-> PrimaryOf(i),
                thumbnail_path |-> ing[i].thumbnail_path] \in FilesOf(i)
    /\ \A r \in Reqs : \A k \in DOMAIN req[r].uploaded_files :
        \E i \in CallsOf(r) :
            /\ Returned(i) /\ ing[i].result = "Ok" /\ ing[i].committed
            /\ req[r].uploaded_files[k] =
                   [id |-> ing[i].id, path |-> PrimaryOf(i),
                    thumbnail_path |-> ing[i].thumbnail_path]

\* One call returned a file with its thumbnail path after a derivation that
\* returned Ok, another a file without after a derivation that returned Err.
C19_Witness ==
    \E i, j \in DOMAIN ing :
        /\ Returned(i) /\ ing[i].derive = "Ok"
        /\ ing[i].thumbnail_path = ThumbnailOf(i)
        /\ Returned(j) /\ ing[j].derive = "Err"
        /\ ing[j].thumbnail_path = "None"

\* C20: in upload_multipart an error of try_next ends the loop as the end of
\* the body does: no error is reported, the response is Ok with the ids
\* uploaded so far when a field was ingested and BadRequest with an empty
\* list otherwise, never InternalServerError, and the files committed
\* before are in place.
C20_ReadErrorEndsLikeEof ==
    \A r \in Reqs :
        req[r].ended = "error" =>
            /\ req[r].kind = "multipart" /\ req[r].pc = "done"
            /\ req[r].err = "none"
            /\ req[r].resp =
                   IF req[r].uploaded_files # <<>> THEN "Ok" ELSE "BadRequest"
            /\ req[r].body = IngestedIds(r, ing)
            /\ req[r].uploaded_files = <<>> => req[r].body = <<>>
            /\ \A k \in DOMAIN req[r].uploaded_files :
                  Exists(req[r].uploaded_files[k].path)

\* The body of a multipart request could not be read after one field had
\* been ingested: the response is Ok with its id.
C20_Witness ==
    \E r \in Reqs :
        /\ req[r].ended = "error" /\ req[r].resp = "Ok"
        /\ Len(req[r].body) = 1
        /\ Exists(req[r].uploaded_files[1].path)

====
